---- MODULE Spec2Model ----
(***************************************************************************)
(* A model of humantalk (src/src/lib.rs): the severity -> color table of   *)
(* Config, Config::write, the Color -> 256-color-index conversion, and     *)
(* Config::fatal_error with the file system and the toolchain lookup as    *)
(* its environment.                                                        *)
(*                                                                         *)
(* Text is a sequence of chunks.  A chunk is either one character of a     *)
(* caller-supplied string or one literal piece of a format string; a       *)
(* format!() is the concatenation of its pieces, and a short write stores  *)
(* a prefix of the chunks it was given.                                    *)
(***************************************************************************)
EXTENDS Integers, Sequences, FiniteSets, TLC

VARIABLES
    colors,            \* Config.colors : HashMap<Severity, Color>
    bug_report,        \* Config.bug_report : Option<HowToBugReport>
    debug_assertions,  \* cfg(debug_assertions) of the build
    call,              \* the API call made last, with its arguments and result
    stdout,            \* the lines printed by the current call, in order
    conv,              \* the Color handed to to_color256 and the u8 it returned
    pc,                \* position inside Config::fatal_error
    message,           \* the message argument of fatal_error
    rustc_env,         \* what rustc_version::version_meta() reports when it works
    prior_file,        \* crash_report.log as it was when fatal_error was entered
    file,              \* crash_report.log now
    fileops,           \* the file operations attempted so far, with their results
    lookups,           \* the results of the version_meta() lookups so far
    exit_code          \* the argument of std::process::exit, once called

vars == << colors, bug_report, debug_assertions, call, stdout, conv, pc, message,
           rustc_env, prior_file, file, fileops, lookups, exit_code >>

----------------------------------------------------------------------------
(* Bounds of the model *)

\* longest caller-supplied message, in characters
MaxMsgLen == 2

\* set_color is tried with Color256(0) .. Color256(MaxSetCode)
MaxSetCode == 0

(* Program constants *)

\* the largest u8, the payload type of Color::Color256
MaxU8 == 255

\* the status of a fatal error that was reported
ExitReported == 3

\* the status of every failure to report
ExitFailed == -1

----------------------------------------------------------------------------
(* Option<T> *)

None == << >>

Some(x) == << x >>

IsSome(o) == Len(o) = 1

Unwrap(o) == o[1]

(* Text *)

MsgChars == {"b", "o"}

Prefixes(n) == UNION { [1..k -> MsgChars] : k \in 0..n }

Messages == Prefixes(MaxMsgLen)

Take(s, n) == SubSeq(s, 1, n)

IsPrefix(p, s) == Len(p) <= Len(s) /\ p = Take(s, Len(p))

----------------------------------------------------------------------------
(* Severity and Color *)

Severity == {"Error", "Warning", "Info", "Debug"}

\* impl Display for Severity
SeverityDisplay(s) == CASE s = "Error"   -> <<"error">>
                        [] s = "Warning" -> <<"warning">>
                        [] s = "Info"    -> <<"info">>
                        [] s = "Debug"   -> <<"debug">>

NamedColors == {"Black", "Red", "Green", "Yellow", "Blue", "Magenta", "Cyan", "White"}

Named(n) == << n >>

Color256(code) == << "Color256", code >>

Color == { Named(n) : n \in NamedColors } \cup { Color256(c) : c \in 0..MaxU8 }

\* a plausible slip: two arms of the match exchanged, the payload reduced to 3 bits
to_color256_slip(c) ==
    CASE c = Named("Black")   -> 0
      [] c = Named("Red")     -> 1
      [] c = Named("Green")   -> 2
      [] c = Named("Yellow")  -> 3
      [] c = Named("Blue")    -> 4
      [] c = Named("Magenta") -> 6
      [] c = Named("Cyan")    -> 5
      [] c = Named("White")   -> 7
      [] OTHER                -> c[2] % 8

\* ColorToColor256::to_color256
to_color256(c) ==
    CASE c = Named("Black")   -> 0
      [] c = Named("Red")     -> 1
      [] c = Named("Green")   -> 2
      [] c = Named("Yellow")  -> 3
      [] c = Named("Blue")    -> 4
      [] c = Named("Magenta") -> 5
      [] c = Named("Cyan")    -> 6
      [] c = Named("White")   -> 7
      [] OTHER                -> c[2]

----------------------------------------------------------------------------
(* HashMap<Severity, Color>: a function whose domain is the set of keys *)

EmptyMap == [ k \in {} |-> Named("White") ]

HashMapGet(m, k) == IF k \in DOMAIN m THEN Some(m[k]) ELSE None

HashMapRemove(m, k) == [ x \in DOMAIN m \ {k} |-> m[x] ]

HashMapInsert(m, k, v) == [ x \in DOMAIN m \cup {k} |-> IF x = k THEN v ELSE m[x] ]

\* Config::default().colors
DefaultColors ==
    HashMapInsert(HashMapInsert(HashMapInsert(HashMapInsert(EmptyMap,
        "Error", Named("Red")), "Warning", Named("Yellow")),
        "Info", Named("Green")), "Debug", Named("Blue"))

\* a plausible slip: the fallback of the match is not White
get_color_slip(m, severity) ==
    IF IsSome(HashMapGet(m, severity)) THEN Unwrap(HashMapGet(m, severity))
                                       ELSE Named("Black")

\* Config::get_color
get_color(m, severity) ==
    IF IsSome(HashMapGet(m, severity)) THEN Unwrap(HashMapGet(m, severity))
                                       ELSE Named("White")

\* a plausible slip: the old entry is kept (entry().or_insert) instead of replaced
set_color_slip(m, severity, color) ==
    IF severity \in DOMAIN m THEN m ELSE HashMapInsert(m, severity, color)

\* Config::set_color
set_color(m, severity, color) ==
    HashMapInsert(HashMapRemove(m, severity), severity, color)

(* One printed line: its text and the style console::style gave it *)
Line(text, sty) == [ text |-> text, style |-> sty ]

\* a plausible slip: the cfg(not(debug_assertions)) early return is missing
write_slip(m, dbg, severity, msg) ==
    << Line(<<"[">> \o SeverityDisplay(severity) \o <<"] ">> \o msg,
            <<"color256", to_color256(get_color(m, severity))>>) >>

\* Config::write: the lines it prints
write(m, dbg, severity, msg) ==
    IF ~dbg /\ severity = "Debug"
    THEN << >>
    ELSE << Line(<<"[">> \o SeverityDisplay(severity) \o <<"] ">> \o msg,
                 <<"color256", to_color256(get_color(m, severity))>>) >>

----------------------------------------------------------------------------
(* HowToBugReport *)

HowToBugReport(msg, url) == [ message |-> msg, url |-> url ]

\* the descriptor fatal_error uses when Config.bug_report is None
DefaultBugReport ==
    HowToBugReport(<<"Oh no! The program has crashed">>, <<"the appropriate place">>)

\* a descriptor supplied by the host through Config::custom
CustomBugReport == HowToBugReport(<<"contact us">>, <<"http://example.test">>)

\* pub const VERSION
VERSION == <<"0.1.1">>

(* What version_meta() can report: a rustc with or without an LLVM version *)
RustcEnvs ==
    { [ short_version_string |-> <<"rustc 1.75.0">>, llvm_version |-> None ],
      [ short_version_string |-> <<"rustc 1.75.0">>,
        llvm_version |-> Some([ major |-> 17, minor |-> 0 ]) ] }

\* Config::machine_info, when version_meta() succeeds
machine_info(rustc_info) ==
    LET llvm_version_string ==
            IF IsSome(rustc_info.llvm_version)
            THEN << ToString(Unwrap(rustc_info.llvm_version).major), ".",
                    ToString(Unwrap(rustc_info.llvm_version).minor) >>
            ELSE << "unknown" >>
    IN  <<"{family}-{os}-{arch}", " - Rust version ">>
            \o rustc_info.short_version_string
            \o <<", running on LLVM ">> \o llvm_version_string
            \o <<". information stuff generated by humantalk ">> \o VERSION

\* Config::machine_info, the line printed when version_meta() fails
MachineInfoFailedNotice ==
    Line(<<"humantalk has failed (with message ", "{e}",
           "). Please submit an issue at github.com/werdl/humantalk">>, <<"plain">>)

CreateFailedNotice ==
    Line(<<"Failed to create debug file - just copy the information displayed above.">>,
         <<"plain">>)

WriteFailedNotice ==
    Line(<<"Failed to write to debug file - just copy the information displayed above.">>,
         <<"plain">>)

Notices == { MachineInfoFailedNotice, CreateFailedNotice, WriteFailedNotice }

\* the bug report fatal_error resolves
ResolveBugReport(br) == IF IsSome(br) THEN Unwrap(br) ELSE DefaultBugReport

\* the text fatal_error writes to crash_report.log first
ReportBody(msg, br) ==
    <<"[FATAL] ">> \o msg \o <<"\n">> \o br.message
        \o <<". Please submit a report to ">> \o br.url
        \o <<", along with a copy of this error message, which can also be found in crash_report.log as plaintext.">>

\* the text fatal_error prints first: the same, followed by an empty line
ReportScreen(msg, br) == ReportBody(msg, br) \o <<"\n\n">>

\* the text fatal_error writes to crash_report.log second
PlatformInfoBlock(rustc_info) == <<"\n[PLATFORM INFO]\n">> \o machine_info(rustc_info)

\* the text fatal_error prints second
PlatformInfoScreen(rustc_info) == <<"[PLATFORM INFO]\n">> \o machine_info(rustc_info)

\* crash_report.log after a fatal_error that wrote everything
FullReport(msg, br, rustc_info) == ReportBody(msg, br) \o PlatformInfoBlock(rustc_info)

\* a crash_report.log left complete by an earlier run
PriorReport ==
    FullReport(<<"p">>, DefaultBugReport,
               [ short_version_string |-> <<"rustc 1.75.0">>, llvm_version |-> None ])

(* The file: None when absent, Some(contents) otherwise *)

FileData(f) == IF IsSome(f) THEN Unwrap(f) ELSE << >>

\* a plausible slip: the file is opened without truncation
FileCreateKeep(f) == IF IsSome(f) THEN f ELSE Some(<< >>)

\* std::fs::File::create when it succeeds: the file exists and is empty
FileCreate(f) == Some(<< >>)

\* io::Write::write for File when it returns Ok(n): n chunks of buf are appended
FileWrite(f, buf, n) == Some(FileData(f) \o Take(buf, n))

FileOp(op, ok, len, n) == [ op |-> op, ok |-> ok, len |-> len, n |-> n ]

----------------------------------------------------------------------------
(* Values of the variables a specification does not use *)

NoCall == [ op |-> "none", severity |-> "none", color |-> None,
            message |-> << >>, result |-> None ]

Call(op, severity, color, msg, result) ==
    [ op |-> op, severity |-> severity, color |-> color,
      message |-> msg, result |-> result ]

NoConv == [ color |-> None, index |-> None ]

NoRustc == [ short_version_string |-> << >>, llvm_version |-> None ]

----------------------------------------------------------------------------
(* The logging API: a host holds a Config and calls its methods *)

\* the colors the host passes to set_color
SetColors == { Named("White") } \cup { Color256(c) : c \in 0..MaxSetCode }

\* Config::default() and Config::custom(HashMap::new(), bug_report)
InitConfig ==
    /\ \/ colors = DefaultColors /\ bug_report = None
       \/ colors = EmptyMap /\ bug_report = Some(CustomBugReport)
    /\ debug_assertions \in BOOLEAN
    /\ call = NoCall
    /\ stdout = << >>
    /\ conv = NoConv
    /\ pc = "idle"
    /\ message = << >>
    /\ rustc_env = NoRustc
    /\ prior_file = None
    /\ file = None
    /\ fileops = << >>
    /\ lookups = << >>
    /\ exit_code = None

\* config.set_color(severity, color)
SetColorCall ==
    \E severity \in Severity, color \in SetColors :
        /\ pc = "idle"
        /\ colors' = set_color(colors, severity, color)
        /\ call' = Call("set_color", severity, Some(color), << >>, None)
        /\ stdout' = << >>
        /\ UNCHANGED << bug_report, debug_assertions, conv, pc, message, rustc_env,
                        prior_file, file, fileops, lookups, exit_code >>

\* config.get_color(&severity)
GetColorCall ==
    \E severity \in Severity :
        /\ pc = "idle"
        /\ call' = Call("get_color", severity, None, << >>,
                        Some(get_color(colors, severity)))
        /\ stdout' = << >>
        /\ UNCHANGED << colors, bug_report, debug_assertions, conv, pc, message,
                        rustc_env, prior_file, file, fileops, lookups, exit_code >>

\* config.write(severity, message)
WriteCall ==
    \E severity \in Severity, msg \in Messages :
        /\ pc = "idle"
        /\ call' = Call("write", severity, None, msg, None)
        /\ stdout' = write(colors, debug_assertions, severity, msg)
        /\ UNCHANGED << colors, bug_report, debug_assertions, conv, pc, message,
                        rustc_env, prior_file, file, fileops, lookups, exit_code >>

\* the severity each shorthand fixes
ShorthandSeverity(op) == CASE op = "debug"   -> "Debug"
                           [] op = "info"    -> "Info"
                           [] op = "error"   -> "Error"
                           [] op = "warning" -> "Warning"

\* config.debug(message), config.info(message), config.error(message),
\* config.warning(message)
ShorthandCall ==
    \E op \in {"debug", "info", "error", "warning"}, msg \in Messages :
        /\ pc = "idle"
        /\ call' = Call(op, ShorthandSeverity(op), None, msg, None)
        /\ stdout' = write(colors, debug_assertions, ShorthandSeverity(op), msg)
        /\ UNCHANGED << colors, bug_report, debug_assertions, conv, pc, message,
                        rustc_env, prior_file, file, fileops, lookups, exit_code >>

NextConfig == SetColorCall \/ GetColorCall \/ WriteCall \/ ShorthandCall

SpecConfig == InitConfig /\ [][NextConfig]_vars

----------------------------------------------------------------------------
(* The conversion of a Color to its palette index, applied to every Color *)

InitColor256 ==
    /\ colors = DefaultColors
    /\ bug_report = None
    /\ debug_assertions = TRUE
    /\ call = NoCall
    /\ stdout = << >>
    /\ conv \in { [ color |-> Some(c), index |-> None ] : c \in Color }
    /\ pc = "idle"
    /\ message = << >>
    /\ rustc_env = NoRustc
    /\ prior_file = None
    /\ file = None
    /\ fileops = << >>
    /\ lookups = << >>
    /\ exit_code = None

\* color.to_color256()
ToColor256Call ==
    /\ pc = "idle"
    /\ IsSome(conv.color)
    /\ conv.index = None
    /\ conv' = [ conv EXCEPT !.index = Some(to_color256(Unwrap(conv.color))) ]
    /\ UNCHANGED << colors, bug_report, debug_assertions, call, stdout, pc, message,
                    rustc_env, prior_file, file, fileops, lookups, exit_code >>

NextColor256 == ToColor256Call

SpecColor256 == InitColor256 /\ [][NextColor256]_vars

----------------------------------------------------------------------------
(* Config::fatal_error, one step per statement that prints, looks the      *)
(* toolchain up, touches the file or ends the process.  The environment    *)
(* decides whether a lookup, the creation and each write succeed, and how  *)
(* much of its buffer a successful write stores.                           *)

\* the host calls config.fatal_error(message); crash_report.log is absent or
\* was left complete by an earlier run
InitFatal ==
    /\ colors = DefaultColors
    /\ bug_report \in { None, Some(CustomBugReport) }
    /\ debug_assertions = TRUE
    /\ message \in Messages
    /\ call = Call("fatal_error", "none", None, message, None)
    /\ stdout = << >>
    /\ conv = NoConv
    /\ pc = "entry"
    /\ rustc_env \in RustcEnvs
    /\ prior_file \in { None, Some(PriorReport) }
    /\ file = prior_file
    /\ fileops = << >>
    /\ lookups = << >>
    /\ exit_code = None

\* std::process::exit(code), after printing notice
ExitWith(notice, code) ==
    /\ stdout' = Append(stdout, notice)
    /\ exit_code' = Some(code)
    /\ pc' = "exited"

\* a plausible slip: the report is composed but not printed before the rest
PrintReportLate ==
    /\ pc = "entry"
    /\ pc' = "platform_info"
    /\ UNCHANGED << colors, bug_report, debug_assertions, call, stdout, conv, message,
                    rustc_env, prior_file, file, fileops, lookups, exit_code >>

\* resolve the bug report, compose the report and print it in red
PrintReport ==
    /\ pc = "entry"
    /\ stdout' = Append(stdout,
                    Line(ReportScreen(message, ResolveBugReport(bug_report)), <<"red">>))
    /\ pc' = "platform_info"
    /\ UNCHANGED << colors, bug_report, debug_assertions, call, conv, message,
                    rustc_env, prior_file, file, fileops, lookups, exit_code >>

\* println!(style("[PLATFORM INFO]\n" + self.machine_info()).cyan())
PrintPlatformInfo ==
    /\ pc = "platform_info"
    /\ \E ok \in BOOLEAN :
        /\ lookups' = Append(lookups, ok)
        /\ IF ok
           THEN /\ stdout' = Append(stdout,
                                Line(PlatformInfoScreen(rustc_env), <<"cyan">>))
                /\ pc' = "create"
                /\ UNCHANGED exit_code
           ELSE ExitWith(MachineInfoFailedNotice, ExitFailed)
    /\ UNCHANGED << colors, bug_report, debug_assertions, call, conv, message,
                    rustc_env, prior_file, file, fileops >>

\* a plausible slip: the failure handler prints its notice and does not exit
CreateFileCarryOn ==
    /\ pc = "create"
    /\ \E ok \in BOOLEAN :
        /\ fileops' = Append(fileops, FileOp("create", ok, 0, 0))
        /\ IF ok
           THEN /\ file' = FileCreate(file)
                /\ UNCHANGED stdout
           ELSE /\ stdout' = Append(stdout, CreateFailedNotice)
                /\ UNCHANGED file
        /\ pc' = "write_report"
    /\ UNCHANGED << colors, bug_report, debug_assertions, call, conv, message,
                    rustc_env, prior_file, lookups, exit_code >>

\* std::fs::File::create("crash_report.log").unwrap_or_else(...)
CreateFile ==
    /\ pc = "create"
    /\ \E ok \in BOOLEAN :
        /\ fileops' = Append(fileops, FileOp("create", ok, 0, 0))
        /\ IF ok
           THEN /\ file' = FileCreate(file)
                /\ pc' = "write_report"
                /\ UNCHANGED << stdout, exit_code >>
           ELSE /\ ExitWith(CreateFailedNotice, ExitFailed)
                /\ UNCHANGED file
    /\ UNCHANGED << colors, bug_report, debug_assertions, call, conv, message,
                    rustc_env, prior_file, lookups >>

\* debug_file.write(buf).unwrap_or_else(...): Err, or Ok(n) with n <= buf.len()
WriteOrExit(buf, next) ==
    \/ /\ fileops' = Append(fileops, FileOp("write", FALSE, Len(buf), 0))
       /\ ExitWith(WriteFailedNotice, ExitFailed)
       /\ UNCHANGED file
    \/ \E n \in 0..Len(buf) :
        /\ fileops' = Append(fileops, FileOp("write", TRUE, Len(buf), n))
        /\ file' = FileWrite(file, buf, n)
        /\ pc' = next
        /\ UNCHANGED << stdout, exit_code >>

\* a plausible slip: the result of the write is dropped, errors included
WriteReportUnchecked ==
    /\ pc = "write_report"
    /\ \/ /\ fileops' = Append(fileops,
                FileOp("write", FALSE,
                       Len(ReportBody(message, ResolveBugReport(bug_report))), 0))
          /\ UNCHANGED file
       \/ \E n \in 0..Len(ReportBody(message, ResolveBugReport(bug_report))) :
           /\ fileops' = Append(fileops,
                FileOp("write", TRUE,
                       Len(ReportBody(message, ResolveBugReport(bug_report))), n))
           /\ file' = FileWrite(file,
                        ReportBody(message, ResolveBugReport(bug_report)), n)
    /\ pc' = "format_info"
    /\ UNCHANGED << colors, bug_report, debug_assertions, call, stdout, conv, message,
                    rustc_env, prior_file, lookups, exit_code >>

\* the first write: "[FATAL] ..." and the bug report
WriteReport ==
    /\ pc = "write_report"
    /\ WriteOrExit(ReportBody(message, ResolveBugReport(bug_report)), "format_info")
    /\ UNCHANGED << colors, bug_report, debug_assertions, call, conv, message,
                    rustc_env, prior_file, lookups >>

\* format!("\n[PLATFORM INFO]\n{}", self.machine_info()): the second lookup
FormatPlatformInfo ==
    /\ pc = "format_info"
    /\ \E ok \in BOOLEAN :
        /\ lookups' = Append(lookups, ok)
        /\ IF ok
           THEN /\ pc' = "write_info"
                /\ UNCHANGED << stdout, exit_code >>
           ELSE ExitWith(MachineInfoFailedNotice, ExitFailed)
    /\ UNCHANGED << colors, bug_report, debug_assertions, call, conv, message,
                    rustc_env, prior_file, file, fileops >>

\* the second write: the platform info block
WritePlatformInfo ==
    /\ pc = "write_info"
    /\ WriteOrExit(PlatformInfoBlock(rustc_env), "exit")
    /\ UNCHANGED << colors, bug_report, debug_assertions, call, conv, message,
                    rustc_env, prior_file, lookups >>

\* a plausible slip: the final exit is missing and the function returns
ReturnToCaller ==
    /\ pc = "exit"
    /\ pc' = "returned"
    /\ UNCHANGED << colors, bug_report, debug_assertions, call, stdout, conv, message,
                    rustc_env, prior_file, file, fileops, lookups, exit_code >>

\* std::process::exit(3)
ExitReportedStep ==
    /\ pc = "exit"
    /\ exit_code' = Some(ExitReported)
    /\ pc' = "exited"
    /\ UNCHANGED << colors, bug_report, debug_assertions, call, stdout, conv, message,
                    rustc_env, prior_file, file, fileops, lookups >>

NextFatal ==
    \/ PrintReport
    \/ PrintPlatformInfo
    \/ CreateFile
    \/ WriteReport
    \/ FormatPlatformInfo
    \/ WritePlatformInfo
    \/ ExitReportedStep

SpecFatal == InitFatal /\ [][NextFatal]_vars

\* the statements of fatal_error run one after the other; nothing suspends them
FairSpecFatal == SpecFatal /\ WF_vars(NextFatal)

----------------------------------------------------------------------------
(* What the claims speak of *)

\* the status the parent of the process observes: the low 8 bits of the code
ExitStatus(code) == code % 256

Exited == pc = "exited" /\ IsSome(exit_code)

CreateSucceeded == \E i \in 1..Len(fileops) : fileops[i].op = "create" /\ fileops[i].ok

CreateFailed == \E i \in 1..Len(fileops) : fileops[i].op = "create" /\ ~fileops[i].ok

WriteAttempted == \E i \in 1..Len(fileops) : fileops[i].op = "write"

WriteFailed == \E i \in 1..Len(fileops) : fileops[i].op = "write" /\ ~fileops[i].ok

LookupFailed == \E i \in 1..Len(lookups) : ~lookups[i]

NoticePrinted == \E i \in 1..Len(stdout) : stdout[i] \in Notices

\* the whole report is on the screen and in the file
Reported ==
    /\ Len(stdout) = 2
    /\ stdout[1].text = ReportScreen(message, ResolveBugReport(bug_report))
    /\ stdout[2].text = PlatformInfoScreen(rustc_env)
    /\ file = Some(FullReport(message, ResolveBugReport(bug_report), rustc_env))

----------------------------------------------------------------------------
(* C1: fatal_error never returns to its caller: whatever the configuration, *)
(* the message and the outcomes of the lookups, the creation and the writes, *)
(* the run never reaches a return and it ends in process termination.       *)
C1_NeverReturns == [](pc # "returned") /\ <>Exited

\* the second toolchain lookup failed, after the first write: the process ended
C1_Witness == Exited /\ lookups = << TRUE, FALSE >>

(* C2: the exit status is 3 when the report was printed and crash_report.log *)
(* created and written, and it is -1, a nonzero status other than 3, when    *)
(* the creation, a write or a toolchain lookup failed.                       *)
C2_ExitStatus ==
    Exited =>
        /\ Reported => exit_code = Some(3)
        /\ (CreateFailed \/ WriteFailed \/ LookupFailed) =>
              /\ exit_code = Some(-1)
              /\ ExitStatus(Unwrap(exit_code)) \notin {0, 3}

\* the second write returned an error
C2_Witness ==
    /\ Exited
    /\ Len(fileops) = 3
    /\ ~fileops[3].ok
    /\ exit_code = Some(-1)

(* C3, as claimed: when fatal_error ends with a status other than 3,         *)
(* crash_report.log is absent or holds a complete prior version.             *)
C3_Original ==
    (Exited /\ exit_code # Some(3)) =>
        \/ file = None
        \/ IsSome(prior_file) /\ file = prior_file

(* C3, amended: when fatal_error ends with a status other than 3 and the     *)
(* creation of crash_report.log did not succeed, the file is as it was,      *)
(* absent or the complete prior version; when the creation succeeded, the    *)
(* prior contents are gone and the file holds a prefix of the report body,   *)
(* possibly empty, and never the complete new report.                        *)
C3_Amended ==
    (Exited /\ exit_code # Some(3)) =>
        IF CreateSucceeded
        THEN /\ IsSome(file)
             /\ IsPrefix(Unwrap(file), ReportBody(message, ResolveBugReport(bug_report)))
             /\ file # Some(FullReport(message, ResolveBugReport(bug_report), rustc_env))
        ELSE file = prior_file

\* a complete prior report was truncated and the first write failed
C3_Witness ==
    /\ Exited
    /\ exit_code = Some(-1)
    /\ prior_file = Some(PriorReport)
    /\ file = Some(<< >>)
    /\ WriteFailed

(* C4: a write that fails ends the run with a notice and a status other than *)
(* 3, so whenever fatal_error ends with status 3 crash_report.log holds the  *)
(* complete report body followed by the complete [PLATFORM INFO] block.      *)
C4_CompleteOnStatus3 ==
    /\ WriteFailed =>
          /\ Exited
          /\ exit_code # Some(3)
          /\ stdout[Len(stdout)] = WriteFailedNotice
    /\ (Exited /\ exit_code = Some(3)) =>
          file = Some(FullReport(message, ResolveBugReport(bug_report), rustc_env))

(* C5: on every run of fatal_error the report body, "[FATAL] " + message     *)
(* first, is the first thing printed: before any file operation is attempted *)
(* and before any failure notice is printed.                                 *)
C5_ReportPrintedFirst ==
    (fileops # << >> \/ lookups # << >> \/ NoticePrinted \/ pc = "exited") =>
        /\ Len(stdout) >= 1
        /\ stdout[1].text = ReportScreen(message, ResolveBugReport(bug_report))
        /\ IsPrefix(<<"[FATAL] ">> \o message, stdout[1].text)
        /\ stdout[1] \notin Notices

\* the first write failed: the report, the platform info, then the notice
C5_Witness ==
    /\ Exited
    /\ Len(fileops) = 2
    /\ ~fileops[2].ok
    /\ Len(stdout) = 3
    /\ stdout[3] = WriteFailedNotice

(* C6: after set_color(s, c), get_color(s) is c, and get_color(s2) is what   *)
(* it was before the call for every other severity s2, mapped or not.        *)
C6_SetGetRoundTrip ==
    [][ call'.op = "set_color" =>
          /\ get_color(colors', call'.severity) = Unwrap(call'.color)
          /\ \A s2 \in Severity \ {call'.severity} :
                get_color(colors', s2) = get_color(colors, s2) ]_vars

\* a color was set for one severity while the three others are unmapped
C6_Witness ==
    /\ call.op = "set_color"
    /\ DOMAIN colors = {call.severity}
    /\ colors[call.severity] = Color256(0)

(* C7: get_color returns the mapped color when the severity is a key of the *)
(* map and White otherwise, for every severity and every map, the empty one *)
(* included; a write that is not suppressed prints its line in that color.  *)
C7_GetColorTotal ==
    LET resolved == IF call.severity \in DOMAIN colors
                    THEN colors[call.severity]
                    ELSE Named("White")
    IN  /\ call.op = "get_color" => call.result = Some(resolved)
        /\ (call.op \in {"write", "debug", "info", "error", "warning"}
              /\ (debug_assertions \/ call.severity # "Debug")) =>
                 /\ Len(stdout) = 1
                 /\ stdout[1].style = <<"color256", to_color256(resolved)>>

\* get_color on the empty map resolved to White
C7_Witness ==
    /\ call.op = "get_color"
    /\ colors = EmptyMap
    /\ call.result = Some(Named("White"))

(* C8: write(severity, message) prints exactly one line, "[" + the lowercase *)
(* severity label + "] " + message, except that in a release build a Debug   *)
(* write prints nothing; Error, Warning and Info are printed in every build. *)
C8_WriteLine ==
    call.op \in {"write", "debug", "info", "error", "warning"} =>
        IF ~debug_assertions /\ call.severity = "Debug"
        THEN stdout = << >>
        ELSE /\ Len(stdout) = 1
             /\ stdout[1].text =
                   << "[",
                      CASE call.severity = "Error"   -> "error"
                        [] call.severity = "Warning" -> "warning"
                        [] call.severity = "Info"    -> "info"
                        [] call.severity = "Debug"   -> "debug",
                      "] " >> \o call.message

\* a Debug write in a release build printed nothing
C8_Witness ==
    /\ call.op = "write"
    /\ call.severity = "Debug"
    /\ ~debug_assertions
    /\ call.message # << >>
    /\ stdout = << >>

(* C9: the palette index of a Color is Black 0, Red 1, Green 2, Yellow 3,    *)
(* Blue 4, Magenta 5, Cyan 6, White 7, and N for Color256(N), N in 0..255.   *)
C9_PaletteIndex ==
    IsSome(conv.index) =>
        LET c == Unwrap(conv.color)
            i == Unwrap(conv.index)
        IN  /\ c = Named("Black")   => i = 0
            /\ c = Named("Red")     => i = 1
            /\ c = Named("Green")   => i = 2
            /\ c = Named("Yellow")  => i = 3
            /\ c = Named("Blue")    => i = 4
            /\ c = Named("Magenta") => i = 5
            /\ c = Named("Cyan")    => i = 6
            /\ c = Named("White")   => i = 7
            /\ \A n \in 0..255 : c = Color256(n) => i = n

\* the largest code was converted
C9_Witness == conv = [ color |-> Some(Color256(255)), index |-> Some(255) ]

(* C10: when the creation of crash_report.log fails, fatal_error prints the *)
(* could-not-create notice and ends at once with a status other than 3; no  *)
(* write to the file is attempted.                                          *)
C10_CreateFailureExits ==
    CreateFailed =>
        /\ Exited
        /\ exit_code # Some(3)
        /\ ExitStatus(Unwrap(exit_code)) # 3
        /\ stdout[Len(stdout)] = CreateFailedNotice
        /\ ~WriteAttempted

\* the creation failed over an existing file
C10_Witness ==
    /\ Exited
    /\ fileops = << FileOp("create", FALSE, 0, 0) >>
    /\ IsSome(prior_file)

====
